---- MODULE Spec2Model ----
(***************************************************************************)
(* A model of the Minesweeper board engine (src/src/board.rs) and of the   *)
(* game controller that drives it (src/src/gui.rs, gui_board.rs,           *)
(* gui_animation.rs, gui_popup.rs, gui_ui.rs).                             *)
(*                                                                         *)
(* Spec     the board engine used as a library: any sequence of its        *)
(*          public operations on a freshly constructed board.              *)
(* SpecLife   the same with place_mines_avoiding called at most once, as   *)
(*          one game does.                                                 *)
(* SpecPlace  the start of a board's life on larger boards: new, then one  *)
(*          place_mines_avoiding, then calculate_numbers.                  *)
(* SpecApp  the controller: one action per frame of MinesweeperApp::run,   *)
(*          with the frame's input (mouse press, frame time) as its        *)
(*          parameters.                                                    *)
(***************************************************************************)
EXTENDS Integers, Sequences, FiniteSets, TLC

\* ---------------------------------------------------------------- bounds

\* Spec and SpecLife: boards of at most MaxCells cells, at most MaxMines
\* requested mines; Spec: at most MaxPlacements calls of place_mines_avoiding
\* on one board.
MaxCells == 3
MaxMines == 1
MaxPlacements == 2

\* SpecPlace: boards of at most MaxPlaceCells cells, at most MaxPlaceMines
\* requested mines.
MaxPlaceCells == 12
MaxPlaceMines == 3

\* SpecNumbers: boards of at most MaxNumCells cells, any set of their cells
\* made Mine, so that a cell of a 3x3 board can have 8 Mine neighbours.
MaxNumCells == 9

\* SpecFill: boards of at most MaxFillCells cells (a 3x3 board is among
\* them) on which at most MaxFillSet cells in all were made Mine, Flagged or
\* Uncovered before flood_fill_wave is called.
MaxFillCells == 9
MaxFillSet == 2

\* SpecSizes: board_size_from_params is called with every width and height
\* in 1..MaxSide and every mine count in 0..MaxMineCount; the largest preset
\* is (24, 24, 99).
MaxSide == 24
MaxMineCount == 99

\* SpecApp: the controller is started on boards of at most MaxAppCells cells
\* with at most MaxAppMines requested mines; a frame lasts 1..MaxFrameTime
\* ticks; EffectTicks is the life of a particle and of a shockwave, PopTicks
\* the POP_ANIMATION_DURATION, RevealTicks the REVEAL_DELAY and PopupTicks the
\* 4 seconds before the win popup, in ticks.
MaxAppCells == 4
MaxAppMines == 1
MaxGameCells == 5
MaxGameMines == 2
MaxFairCells == 4
MaxFairMines == 1
MaxFrameTime == 1
EffectTicks == 2
PopTicks == 2
RevealTicks == 2
PopupTicks == 2

\* ------------------------------------------------------------ value types

\* enum Cell { Mine, Number(u8), Empty }
Mine == [kind |-> "Mine", n |-> 0]
Empty == [kind |-> "Empty", n |-> 0]
Number(k) == [kind |-> "Number", n |-> k]

\* enum CellState { Covered, Uncovered, Flagged }
Covered == "Covered"
Uncovered == "Uncovered"
Flagged == "Flagged"
CellState == {Covered, Uncovered, Flagged}

\* Option<T>
None == [some |-> FALSE]
Some(v) == [some |-> TRUE, val |-> v]

\* return values of the engine's operations
Unit == [tag |-> "unit"]
Panic == [tag |-> "panic"]
RetOption(o) == [tag |-> "option", val |-> o]
RetSeq(s) == [tag |-> "seq", val |-> s]

Abs(x) == IF x < 0 THEN -x ELSE x
Min(a, b) == IF a < b THEN a ELSE b

\* ------------------------------------------------------------------ state

VARIABLES
    width, height, mines,   \* Board: the three dimension fields
    cells,                  \* Board.cells: Vec<Vec<Cell>>, rows 0..len-1
    states,                 \* Board.states: Vec<Vec<CellState>>
    mine_positions,         \* Board.mine_positions: HashSet<(usize, usize)>
    op,                     \* the last operation called and its arguments
    ret,                    \* what it returned
    reps,                   \* 2 when the call before it was the same call, else 1
    nplace,                 \* calls of place_mines_avoiding so far
    ctor,                   \* the arguments <<width, height, mines>> given to new
    state,                  \* MinesweeperApp.state: GameState
    board_size,             \* MinesweeperApp.board_size: BoardSize
    show_size_popup,        \* MinesweeperApp.show_size_popup
    ignore_next_size_popup_click,
    sound,                  \* MinesweeperApp.sound
    start_time,             \* MinesweeperApp.start_time
    end_time,               \* MinesweeperApp.end_time: Option, see Time below
    pop_timers,             \* MinesweeperApp.pop_timers: Vec<Vec<Option<f32>>>
    wave_timers,            \* MinesweeperApp.wave_timers
    particles,              \* MinesweeperApp.particles, see Time below
    shockwaves,             \* MinesweeperApp.shockwaves
    mine_reveal_queue,      \* MinesweeperApp.mine_reveal_queue: Vec<(row, col, is_mine)>
    wrong_flags,            \* MinesweeperApp.wrong_flags: Vec<(row, col)>
    mine_reveal_timer,      \* the local mine_reveal_timer of run
    handled,                \* the click handle_left_click ran for in the last frame
    history                 \* what was done to set up and to end the game on this board

boardVars == <<width, height, mines, cells, states, mine_positions>>
traceVars == <<op, ret, reps, nplace, ctor>>
appVars == <<state, board_size, show_size_popup, ignore_next_size_popup_click, sound,
             start_time, end_time, pop_timers, wave_timers, particles, shockwaves,
             mine_reveal_queue, wrong_flags, mine_reveal_timer, handled, history>>
vars == <<width, height, mines, cells, states, mine_positions, op, ret, reps, nplace, ctor,
          state, board_size, show_size_popup, ignore_next_size_popup_click, sound,
          start_time, end_time, pop_timers, wave_timers, particles, shockwaves,
          mine_reveal_queue, wrong_flags, mine_reveal_timer, handled, history>>

\* a Vec<Vec<T>> of h rows of w entries: vec![vec![v; w]; h]
Grid(w, h, v) == [r \in 0..(h - 1) |-> [c \in 0..(w - 1) |-> v]]

\* Vec::get(row).and_then(|r| r.get(col)): is the place there
InGrid(g, row, col) == row \in DOMAIN g /\ col \in DOMAIN g[row]

\* ------------------------------------------------------------ Board::new

Board_new_swapped(w, h, m) ==
    [width |-> w, height |-> h, mines |-> m,
     cells |-> Grid(h, w, Empty),
     states |-> Grid(h, w, Covered),
     mine_positions |-> {}]

Board_new(w, h, m) ==
    [width |-> w, height |-> h, mines |-> m,
     cells |-> Grid(w, h, Empty),
     states |-> Grid(w, h, Covered),
     mine_positions |-> {}]

\* ------------------------------------------------- cell / cell_state

cell_transposed(row, col) == IF InGrid(cells, col, row) THEN Some(cells[col][row]) ELSE None

cell(row, col) == IF InGrid(cells, row, col) THEN Some(cells[row][col]) ELSE None

cell_state(row, col) == IF InGrid(states, row, col) THEN Some(states[row][col]) ELSE None

\* ------------------------------------- flag_cell / unflag_cell / uncover

flag_cell_toggle(sts, row, col) ==
    IF InGrid(sts, row, col)
    THEN [sts EXCEPT ![row][col] = IF @ = Flagged THEN Covered ELSE Flagged]
    ELSE sts

flag_cell(sts, row, col) ==
    IF InGrid(sts, row, col) THEN [sts EXCEPT ![row][col] = Flagged] ELSE sts

unflag_cell(sts, row, col) ==
    IF InGrid(sts, row, col)
    THEN IF sts[row][col] = Flagged THEN [sts EXCEPT ![row][col] = Covered] ELSE sts
    ELSE sts

\* uncover_cell that leaves a cell that is not Covered as it is
uncover_cell_covered_only(sts, row, col) ==
    IF InGrid(sts, row, col) /\ sts[row][col] = Covered
    THEN [sts EXCEPT ![row][col] = Uncovered]
    ELSE sts

uncover_cell(sts, row, col) ==
    IF InGrid(sts, row, col) THEN [sts EXCEPT ![row][col] = Uncovered] ELSE sts

\* --------------------------------------------------- place_mines_avoiding

\* the positions the two loops push: every (row, col) of the board that is not
\* within one row and one column of the avoided cell
positions_self_only(h, w, avoid_row, avoid_col) ==
    {p \in (0..(h - 1)) \X (0..(w - 1)) :
        ~(Abs(p[1] - avoid_row) <= 0 /\ Abs(p[2] - avoid_col) <= 0)}

positions(h, w, avoid_row, avoid_col) ==
    {p \in (0..(h - 1)) \X (0..(w - 1)) :
        ~(Abs(p[1] - avoid_row) <= 1 /\ Abs(p[2] - avoid_col) <= 1)}

\* positions.shuffle(&mut rng) then .iter().take(m): the first m entries of
\* any order of the positions, all of them when there are fewer than m
shuffle_take_one_more(pos, m) ==
    {s \in SUBSET pos : Cardinality(s) = Min(m + 1, Cardinality(pos))}

shuffle_take(pos, m) ==
    {s \in SUBSET pos : Cardinality(s) = Min(m, Cardinality(pos))}

\* the loop body: cells[row][col] = Cell::Mine for every taken position
set_mines(cl, taken) ==
    [r \in DOMAIN cl |-> [c \in DOMAIN cl[r] |->
        IF <<r, c>> \in taken THEN Mine ELSE cl[r][c]]]

\* ------------------------------------------------------------- neighbors

\* the offsets in the order of the two nested ranges -1..=1
Offsets == << <<-1, -1>>, <<-1, 0>>, <<-1, 1>>,
              <<0, -1>>,  <<0, 0>>,  <<0, 1>>,
              <<1, -1>>,  <<1, 0>>,  <<1, 1>> >>

\* neighbors without the diagonal offsets
neighbors_orthogonal(h, w, row, col) ==
    LET ok(i) == LET nr == row + Offsets[i][1]
                     nc == col + Offsets[i][2]
                 IN  /\ (Offsets[i][1] = 0) # (Offsets[i][2] = 0)
                     /\ nr >= 0 /\ nr < h /\ nc >= 0 /\ nc < w
        at(i) == <<row + Offsets[i][1], col + Offsets[i][2]>>
        F[i \in 0..9] ==
            IF i = 0 THEN <<>>
            ELSE IF ok(i) THEN Append(F[i - 1], at(i)) ELSE F[i - 1]
    IN  F[9]

neighbors(h, w, row, col) ==
    LET ok(i) == LET nr == row + Offsets[i][1]
                     nc == col + Offsets[i][2]
                 IN  /\ ~(Offsets[i][1] = 0 /\ Offsets[i][2] = 0)
                     /\ nr >= 0 /\ nr < h /\ nc >= 0 /\ nc < w
        at(i) == <<row + Offsets[i][1], col + Offsets[i][2]>>
        F[i \in 0..9] ==
            IF i = 0 THEN <<>>
            ELSE IF ok(i) THEN Append(F[i - 1], at(i)) ELSE F[i - 1]
    IN  F[9]

\* ----------------------------------------------------- calculate_numbers

calculate_numbers(cl, h, w) ==
    [row \in 0..(h - 1) |-> [col \in 0..(w - 1) |->
        IF cl[row][col] = Mine THEN Mine
        ELSE LET ns == neighbors(h, w, row, col)
                 count == Cardinality({i \in DOMAIN ns : cl[ns[i][1]][ns[i][2]] = Mine})
             IN  IF count = 0 THEN Empty ELSE Number(count % 256)]]

\* ------------------------------------------------------- flood_fill_wave

\* push_neighbors with push_front in the place of push_back
RECURSIVE push_neighbors_front(_, _, _, _, _, _)
push_neighbors_front(ns, i, dist, sts, queue, visited) ==
    IF i > Len(ns) THEN [queue |-> queue, visited |-> visited]
    ELSE LET n == ns[i]
         IN  IF n \notin visited /\ sts[n[1]][n[2]] = Covered
             THEN push_neighbors_front(ns, i + 1, dist, sts,
                                       <<<<n[1], n[2], dist + 1>>>> \o queue,
                                       visited \cup {n})
             ELSE push_neighbors_front(ns, i + 1, dist, sts, queue, visited)

\* push_neighbors without visited[nr][nc] = true
RECURSIVE push_neighbors_unmarked(_, _, _, _, _, _)
push_neighbors_unmarked(ns, i, dist, sts, queue, visited) ==
    IF i > Len(ns) THEN [queue |-> queue, visited |-> visited]
    ELSE LET n == ns[i]
         IN  IF n \notin visited /\ sts[n[1]][n[2]] = Covered
             THEN push_neighbors_unmarked(ns, i + 1, dist, sts,
                                          Append(queue, <<n[1], n[2], dist + 1>>),
                                          visited)
             ELSE push_neighbors_unmarked(ns, i + 1, dist, sts, queue, visited)

\* the for loop over the neighbours of an Empty cell: push the unvisited
\* Covered ones with dist + 1 and mark them visited
RECURSIVE push_neighbors(_, _, _, _, _, _)
push_neighbors(ns, i, dist, sts, queue, visited) ==
    IF i > Len(ns) THEN [queue |-> queue, visited |-> visited]
    ELSE LET n == ns[i]
         IN  IF n \notin visited /\ sts[n[1]][n[2]] = Covered
             THEN push_neighbors(ns, i + 1, dist, sts,
                                 Append(queue, <<n[1], n[2], dist + 1>>),
                                 visited \cup {n})
             ELSE push_neighbors(ns, i + 1, dist, sts, queue, visited)

\* the while loop pushing the neighbours of every revealed cell, Empty or not
RECURSIVE flood_loop_through_numbers(_, _, _, _, _, _, _)
flood_loop_through_numbers(cl, h, w, sts, queue, revealed, visited) ==
    IF queue = <<>> THEN [states |-> sts, revealed |-> revealed]
    ELSE LET r == Head(queue)[1]
             c == Head(queue)[2]
             dist == Head(queue)[3]
         IN  IF sts[r][c] = Uncovered
             THEN flood_loop_through_numbers(cl, h, w, sts, Tail(queue), revealed, visited)
             ELSE LET sts2 == [sts EXCEPT ![r][c] = Uncovered]
                      rev2 == Append(revealed, <<r, c, dist>>)
                      pushed == push_neighbors(neighbors(h, w, r, c), 1, dist,
                                               sts2, Tail(queue), visited)
                  IN  flood_loop_through_numbers(cl, h, w, sts2, pushed.queue, rev2,
                                                 pushed.visited)

\* the while loop pushing the neighbours of every revealed cell but a Mine
RECURSIVE flood_loop_from_numbers(_, _, _, _, _, _, _)
flood_loop_from_numbers(cl, h, w, sts, queue, revealed, visited) ==
    IF queue = <<>> THEN [states |-> sts, revealed |-> revealed]
    ELSE LET r == Head(queue)[1]
             c == Head(queue)[2]
             dist == Head(queue)[3]
         IN  IF sts[r][c] = Uncovered
             THEN flood_loop_from_numbers(cl, h, w, sts, Tail(queue), revealed, visited)
             ELSE LET sts2 == [sts EXCEPT ![r][c] = Uncovered]
                      rev2 == Append(revealed, <<r, c, dist>>)
                  IN  IF cl[r][c] # Mine
                      THEN LET pushed == push_neighbors(neighbors(h, w, r, c), 1, dist,
                                                        sts2, Tail(queue), visited)
                           IN  flood_loop_from_numbers(cl, h, w, sts2, pushed.queue,
                                                       rev2, pushed.visited)
                      ELSE flood_loop_from_numbers(cl, h, w, sts2, Tail(queue), rev2,
                                                   visited)

\* the while loop pushing the neighbours of the origin whatever its content
RECURSIVE flood_loop_chording(_, _, _, _, _, _, _)
flood_loop_chording(cl, h, w, sts, queue, revealed, visited) ==
    IF queue = <<>> THEN [states |-> sts, revealed |-> revealed]
    ELSE LET r == Head(queue)[1]
             c == Head(queue)[2]
             dist == Head(queue)[3]
         IN  IF sts[r][c] = Uncovered
             THEN flood_loop_chording(cl, h, w, sts, Tail(queue), revealed, visited)
             ELSE LET sts2 == [sts EXCEPT ![r][c] = Uncovered]
                      rev2 == Append(revealed, <<r, c, dist>>)
                  IN  IF cl[r][c] = Empty \/ dist = 0
                      THEN LET pushed == push_neighbors(neighbors(h, w, r, c), 1, dist,
                                                        sts2, Tail(queue), visited)
                           IN  flood_loop_chording(cl, h, w, sts2, pushed.queue,
                                                   rev2, pushed.visited)
                      ELSE flood_loop_chording(cl, h, w, sts2, Tail(queue), rev2,
                                               visited)

\* one more pop_front in the count of a finished loop
Popped(res) == [res EXCEPT !.dequeues = @ + 1]

\* the while loop: one pop_front per call; next to the board and the result
\* it reports the final visited marks and the number of pop_front calls
RECURSIVE flood_loop(_, _, _, _, _, _, _)
flood_loop(cl, h, w, sts, queue, revealed, visited) ==
    IF queue = <<>>
    THEN [states |-> sts, revealed |-> revealed, visited |-> visited, dequeues |-> 0]
    ELSE LET r == Head(queue)[1]
             c == Head(queue)[2]
             dist == Head(queue)[3]
         IN  IF sts[r][c] = Uncovered
             THEN Popped(flood_loop(cl, h, w, sts, Tail(queue), revealed, visited))
             ELSE LET sts2 == [sts EXCEPT ![r][c] = Uncovered]
                      rev2 == Append(revealed, <<r, c, dist>>)
                  IN  IF cl[r][c] = Empty
                      THEN LET pushed == push_neighbors(neighbors(h, w, r, c), 1, dist,
                                                        sts2, Tail(queue), visited)
                           IN  Popped(flood_loop(cl, h, w, sts2, pushed.queue, rev2,
                                                 pushed.visited))
                      ELSE Popped(flood_loop(cl, h, w, sts2, Tail(queue), rev2,
                                             visited))

\* visited[row][col] = true indexes a height x width grid: it panics when the
\* origin is not on the board, before the board is touched
flood_fill_wave(cl, h, w, sts, row, col) ==
    IF ~(row < h /\ col < w)
    THEN [panic |-> TRUE, states |-> sts, revealed |-> <<>>, visited |-> {},
          dequeues |-> 0]
    ELSE [panic |-> FALSE]
             @@ flood_loop(cl, h, w, sts, <<<<row, col, 0>>>>, <<>>, {<<row, col>>})

\* ------------------------------------------------------ testing helpers

\* cells.get_mut(row) and then get_mut(col): nothing is written off the board
set_cell(cl, row, col, v) ==
    IF InGrid(cl, row, col) THEN [cl EXCEPT ![row][col] = v] ELSE cl

set_cell_state(sts, row, col, v) ==
    IF InGrid(sts, row, col) THEN [sts EXCEPT ![row][col] = v] ELSE sts

insert_mine_position(index, row, col) == index \cup {<<row, col>>}

\* a test's set-up: the same helper called for every coordinate of a set
RECURSIVE set_cells(_, _, _)
set_cells(cl, S, v) ==
    IF S = {} THEN cl
    ELSE LET p == CHOOSE q \in S : TRUE
         IN  set_cells(set_cell(cl, p[1], p[2], v), S \ {p}, v)

RECURSIVE set_cell_states(_, _, _)
set_cell_states(sts, S, v) ==
    IF S = {} THEN sts
    ELSE LET p == CHOOSE q \in S : TRUE
         IN  set_cell_states(set_cell_state(sts, p[1], p[2], v), S \ {p}, v)

RECURSIVE insert_mine_positions(_, _)
insert_mine_positions(index, S) ==
    IF S = {} THEN index
    ELSE LET p == CHOOSE q \in S : TRUE
         IN  insert_mine_positions(insert_mine_position(index, p[1], p[2]), S \ {p})

\* =========================================================== the controller

\* enum BoardSize and its presets (board.rs)
Small == "Small"
Medium == "Medium"
Large == "Large"
BoardSize == {Small, Medium, Large}

params(s) ==
    CASE s = Small -> <<8, 8, 10>>
      [] s = Medium -> <<16, 16, 40>>
      [] s = Large -> <<24, 24, 99>>

\* the preset chosen by the width alone
board_size_from_params_by_width(w, h, m) ==
    CASE w = 8 -> Small
      [] w = 16 -> Medium
      [] w = 24 -> Large
      [] OTHER -> Small

board_size_from_params(w, h, m) ==
    CASE <<w, h, m>> = <<8, 8, 10>> -> Small
      [] <<w, h, m>> = <<16, 16, 40>> -> Medium
      [] <<w, h, m>> = <<24, 24, 99>> -> Large
      [] OTHER -> Small

\* enum GameState
NotStarted == "NotStarted"
Running == "Running"
GameOver == "GameOver"
Won == "Won"
Lost == "Lost"
GameState == {NotStarted, Running, GameOver, Won, Lost}

(***************************************************************************)
(* Time.  The controller's f32/f64 instants and durations are only added   *)
(* to, and compared with thresholds; they are kept in ticks.  One tick is  *)
(* the wave delay of one step of flood distance (0.05 s), so a wave timer  *)
(* starts at its cell's distance.  get_frame_time() is FrameTimes.         *)
(* A timer the code only tests against a threshold stops counting there:   *)
(* a wave timer at 0 (the code tests > 0.0), a pop timer at PopTicks.      *)
(* end_time is kept as its age: Some(n) is an end_time written n ticks     *)
(* ago, so get_time() - end_time is n; it stops counting past PopupTicks.  *)
(* particles is the set of the remaining lives of the particles and        *)
(* shockwaves the set of the timers of the shockwaves: where they are on   *)
(* the screen, and how many share a value, is not kept.                    *)
(***************************************************************************)
FrameTimes == 1..MaxFrameTime

\* get_time() at the first click: an instant after the program's start
Now == 1

Max(a, b) == IF a > b THEN a ELSE b

\* spawn_particles / spawn_confetti push particles with a positive life;
\* spawn_shockwave pushes a shockwave with timer 0.0
spawn_particles(ps) == ps \cup {EffectTicks}
spawn_confetti(ps) == ps \cup {EffectTicks}
spawn_shockwave(sw) == sw \cup {0}

\* the fields make_empty gives a MinesweeperApp, the Board's inlined
make_empty(w, h, m, show, snd) ==
    LET b == Board_new(w, h, m)
    IN  [width |-> b.width, height |-> b.height, mines |-> b.mines,
         cells |-> b.cells, states |-> b.states, mine_positions |-> b.mine_positions,
         board_size |-> board_size_from_params(w, h, m),
         show_size_popup |-> show,
         ignore_next_size_popup_click |-> FALSE,
         sound |-> snd,
         state |-> NotStarted,
         start_time |-> 0,
         end_time |-> None,
         pop_timers |-> Grid(w, h, None),
         wave_timers |-> Grid(w, h, None),
         particles |-> {},
         shockwaves |-> {},
         mine_reveal_queue |-> <<>>,
         wrong_flags |-> <<>>,
         history |-> <<>>]

\* what run keeps outside the MinesweeperApp: its local mine_reveal_timer, and
\* the record of the click handled in the frame; events lists the flag_cell,
\* unflag_cell and reset_game calls of the frame and rng_ok tells whether the
\* mines taken in the frame are an outcome the shuffle has: the two are
\* results of a frame that no variable keeps
RunLocals(a) == [mine_reveal_timer |-> a.mine_reveal_timer, handled |-> a.handled,
                 events |-> a.events, rng_ok |-> a.rng_ok]

\* the record of a call: its name, its cell, and the game state it found
Event(name, row, col, st) == [name |-> name, row |-> row, col |-> col, state |-> st]

\* whether some cell of the board is Uncovered
AnyUncovered(a) ==
    \E row \in 0..(a.height - 1), col \in 0..(a.width - 1) : a.states[row][col] = Uncovered

MinesweeperApp_new(w, h, m) ==
    make_empty(w, h, m, FALSE, TRUE)
        @@ [mine_reveal_timer |-> 0, handled |-> None, events |-> <<>>, rng_ok |-> TRUE]

\* reset_game passing true for the sound in the place of self.sound
reset_game_sound_on(a) ==
    LET p == params(a.board_size)
    IN  make_empty(p[1], p[2], p[3], a.show_size_popup, TRUE)
            @@ [RunLocals(a) EXCEPT !.events = Append(@, Event("reset_game", 0, 0, a.state))]

reset_game(a) ==
    LET p == params(a.board_size)
    IN  make_empty(p[1], p[2], p[3], a.show_size_popup, a.sound)
            @@ [RunLocals(a) EXCEPT !.events = Append(@, Event("reset_game", 0, 0, a.state))]

\* ------------------------------------------------------------- check_win

\* the record of a win: check_win went past its loop, wrote end_time, set the
\* state to Won, played the win sound if the sound is on and spawned confetti;
\* the record keeps the game state it found
Won_event(a) == [name |-> "win", state |-> a.state]

check_win_covered_only(a) ==
    IF \E row \in 0..(a.height - 1), col \in 0..(a.width - 1) :
           a.cells[row][col] # Mine /\ a.states[row][col] = Covered
    THEN a
    ELSE [a EXCEPT !.end_time = Some(0), !.state = Won,
                   !.particles = spawn_confetti(@),
                   !.history = Append(@, Won_event(a))]

check_win(a) ==
    IF \E row \in 0..(a.height - 1), col \in 0..(a.width - 1) :
           a.cells[row][col] # Mine /\ a.states[row][col] # Uncovered
    THEN a
    ELSE [a EXCEPT !.end_time = Some(0), !.state = Won,
                   !.particles = spawn_confetti(@),
                   !.history = Append(@, Won_event(a))]

\* ------------------------------------------------------ the click handlers

\* for &(r, c, dist) in &revealed: wave_timers[r][c] = Some(dist * 0.05)
RECURSIVE set_wave_timers(_, _, _)
set_wave_timers(wt, revealed, i) ==
    IF i > Len(revealed) THEN wt
    ELSE set_wave_timers([wt EXCEPT ![revealed[i][1]][revealed[i][2]] = Some(revealed[i][3])],
                         revealed, i + 1)

handle_empty_click(a, row, col) ==
    LET f == flood_fill_wave(a.cells, a.height, a.width, a.states, row, col)
    IN  check_win([a EXCEPT !.states = f.states,
                            !.wave_timers = set_wave_timers(@, f.revealed, 1)])

handle_number_click(a, row, col) ==
    check_win([a EXCEPT !.states = uncover_cell(@, row, col),
                        !.pop_timers[row][col] = Some(0)])

\* the key sort_by orders the queue with: (row * 13.37 + col * 42.42 + now) *
\* 1000.0 truncated, which orders two cells as 1337 * row + 4242 * col does
hash(e) == 1337 * e[1] + 4242 * e[2]

RECURSIVE sort_by_hash(_)
sort_by_hash(S) ==
    IF S = {} THEN <<>>
    ELSE LET e == CHOOSE x \in S : \A y \in S : hash(x) <= hash(y)
         IN  <<e>> \o sort_by_hash(S \ {e})

\* handle_mine_click queueing the Flagged mines with the others
handle_mine_click_all_mines(a, row, col) ==
    LET sts == uncover_cell(a.states, row, col)
        new_queue == {<<p[1], p[2], TRUE>> : p \in
                        {q \in a.mine_positions : ~(q[1] = row /\ q[2] = col)}}
        wrong == {<<p[1], p[2], FALSE>> : p \in
                        {q \in (0..(a.height - 1)) \X (0..(a.width - 1)) :
                            sts[q[1]][q[2]] = Flagged /\ a.cells[q[1]][q[2]] # Mine}}
    IN  [a EXCEPT !.states = sts,
                  !.particles = spawn_particles(@),
                  !.shockwaves = spawn_shockwave(@),
                  !.mine_reveal_queue = sort_by_hash(new_queue \cup wrong),
                  !.mine_reveal_timer = 0,
                  !.end_time = Some(0),
                  !.state = GameOver]

\* handle_mine_click taking the clicked mine off the board
handle_mine_click_defusing(a, row, col) ==
    [a EXCEPT !.states = uncover_cell(@, row, col),
              !.cells = calculate_numbers([@ EXCEPT ![row][col] = Empty],
                                          a.height, a.width),
              !.mine_positions = @ \ {<<row, col>>},
              !.pop_timers[row][col] = Some(0)]

handle_mine_click(a, row, col) ==
    LET sts == uncover_cell(a.states, row, col)
        new_queue == {<<p[1], p[2], TRUE>> : p \in
                        {q \in a.mine_positions :
                            sts[q[1]][q[2]] # Flagged /\ ~(q[1] = row /\ q[2] = col)}}
        wrong == {<<p[1], p[2], FALSE>> : p \in
                        {q \in (0..(a.height - 1)) \X (0..(a.width - 1)) :
                            sts[q[1]][q[2]] = Flagged /\ a.cells[q[1]][q[2]] # Mine}}
    IN  [a EXCEPT !.states = sts,
                  !.particles = spawn_particles(@),
                  !.shockwaves = spawn_shockwave(@),
                  !.mine_reveal_queue = sort_by_hash(new_queue \cup wrong),
                  !.mine_reveal_timer = 0,
                  !.end_time = Some(0),
                  !.state = GameOver]

\* place_and_calculate with calculate_numbers called before place_mines_avoiding
place_and_calculate_swapped(a, avoid_row, avoid_col, taken) ==
    [a EXCEPT !.cells = set_mines(calculate_numbers(@, a.height, a.width), taken),
              !.mine_positions = taken,
              !.history = @ \o << [name |-> "calculate_numbers", state |-> a.state,
                                   uncovered |-> AnyUncovered(a)],
                                  [name |-> "place_mines_avoiding", state |-> a.state,
                                   uncovered |-> AnyUncovered(a)] >>,
              !.rng_ok = taken \in shuffle_take(
                             positions(a.height, a.width, avoid_row, avoid_col), a.mines)]

\* Board::place_mines_avoiding and calculate_numbers on the app's board; taken
\* is what the shuffle and take(mines) gave
place_and_calculate(a, avoid_row, avoid_col, taken) ==
    [a EXCEPT !.cells = calculate_numbers(set_mines(@, taken), a.height, a.width),
              !.mine_positions = taken,
              !.history = @ \o << [name |-> "place_mines_avoiding", state |-> a.state,
                                   uncovered |-> AnyUncovered(a)],
                                  [name |-> "calculate_numbers", state |-> a.state,
                                   uncovered |-> AnyUncovered(a)] >>,
              !.rng_ok = taken \in shuffle_take(
                             positions(a.height, a.width, avoid_row, avoid_col), a.mines)]

\* the record of a handled left click: its cell, and whether it was the first
\* click of the game (the game state was NotStarted)
Click(row, col, first) == [row |-> row, col |-> col, first |-> first]

dispatch_click(a, row, col) ==
    CASE a.cells[row][col] = Mine -> handle_mine_click(a, row, col)
      [] a.cells[row][col] = Empty -> handle_empty_click(a, row, col)
      [] OTHER -> handle_number_click(a, row, col)

handle_left_click_transposed(a, row, col, taken) ==
    LET a1 == IF a.state = NotStarted
              THEN [place_and_calculate(a, col, row, taken)
                        EXCEPT !.start_time = Now, !.state = Running]
              ELSE a
    IN  dispatch_click([a1 EXCEPT !.handled = Some(Click(row, col, a.state = NotStarted))],
                       row, col)

handle_left_click(a, row, col, taken) ==
    LET a1 == IF a.state = NotStarted
              THEN [place_and_calculate(a, row, col, taken)
                        EXCEPT !.start_time = Now, !.state = Running]
              ELSE a
    IN  dispatch_click([a1 EXCEPT !.handled = Some(Click(row, col, a.state = NotStarted))],
                       row, col)

handle_right_click(a, row, col) ==
    CASE a.states[row][col] = Covered ->
             [a EXCEPT !.states = flag_cell(@, row, col),
                       !.events = Append(@, Event("flag_cell", row, col, a.state))]
      [] a.states[row][col] = Flagged ->
             [a EXCEPT !.states = unflag_cell(@, row, col),
                       !.events = Append(@, Event("unflag_cell", row, col, a.state))]
      [] OTHER -> a

\* the element of a set of one element; The({F(x) : x \in {v}}) is F applied to
\* the value of v, worked out once however often F uses it
The(S) == CHOOSE r \in S : TRUE

\* ---------------------------------------------------------- the animations

handle_pop_animation(a, row, col, dt) ==
    LET timer == a.pop_timers[row][col]
    IN  IF timer.some /\ a.cells[row][col] # Mine
        THEN [a EXCEPT !.pop_timers[row][col] =
                  IF timer.val >= PopTicks THEN None
                  ELSE Some(Min(timer.val + dt, PopTicks))]
        ELSE a

\* returns the app and whether the animation is still running
handle_wave_animation(a, row, col, dt) ==
    LET timer == a.wave_timers[row][col]
    IN  IF timer.some
        THEN IF timer.val > 0
             THEN [app |-> [a EXCEPT !.wave_timers[row][col] = Some(Max(timer.val - dt, 0))],
                   running |-> TRUE]
             ELSE [app |-> check_win([a EXCEPT !.wave_timers[row][col] = None,
                                               !.states = uncover_cell(@, row, col),
                                               !.pop_timers[row][col] = Some(0),
                                               !.particles = spawn_particles(@)]),
                   running |-> FALSE]
        ELSE [app |-> a, running |-> FALSE]

\* the body of the loops of draw_board for one cell: the wave animation of the
\* cell, then its pop animation unless the wave is running
draw_cell(a, row, col, dt) ==
    The({IF wave.running THEN wave.app
         ELSE handle_pop_animation(wave.app, row, col, dt) :
            wave \in {handle_wave_animation(a, row, col, dt)}})

\* the iterations lo .. hi - 1 of for col in 0..width { ... }, one after the
\* other: the first half of them, then the second half on what the first left
RECURSIVE draw_cols(_, _, _, _, _)
draw_cols(a, row, lo, hi, dt) ==
    IF hi <= lo THEN a
    ELSE IF hi = lo + 1 THEN draw_cell(a, row, lo, dt)
    ELSE The({draw_cols(x, row, (lo + hi) \div 2, hi, dt) :
                x \in {draw_cols(a, row, lo, (lo + hi) \div 2, dt)}})

\* for col in 0..width { ... }
draw_row(a, row, col, dt) == draw_cols(a, row, col, a.width, dt)

\* the iterations lo .. hi - 1 of for row in 0..height { ... }
RECURSIVE draw_rows(_, _, _, _)
draw_rows(a, lo, hi, dt) ==
    IF hi <= lo THEN a
    ELSE IF hi = lo + 1 THEN The({draw_row(x, lo, 0, dt) : x \in {a}})
    ELSE The({draw_rows(x, (lo + hi) \div 2, hi, dt) :
                x \in {draw_rows(a, lo, (lo + hi) \div 2, dt)}})

\* for row in 0..height { ... }
draw_board(a, row, dt) == draw_rows(a, row, a.height, dt)

update_and_draw_particles(a, dt) ==
    [a EXCEPT !.particles = {life - dt : life \in {l \in @ : l - dt > 0}}]

update_and_draw_shockwaves(a, dt) ==
    [a EXCEPT !.shockwaves = {timer + dt : timer \in {t \in @ : t + dt < EffectTicks}}]

\* reveal_mines_with_animation setting its timer back to 0 in every frame
reveal_mines_restarting(a, dt) ==
    [a EXCEPT !.mine_reveal_timer = 0]

reveal_mines_with_animation(a, dt) ==
    IF a.state = GameOver /\ a.mine_reveal_queue # <<>>
    THEN IF a.mine_reveal_timer + dt >= RevealTicks
         THEN LET n == Len(a.mine_reveal_queue)
                  e == a.mine_reveal_queue[n]
                  popped == [a EXCEPT !.mine_reveal_timer = 0,
                                      !.mine_reveal_queue = SubSeq(@, 1, n - 1)]
              IN  IF e[3]
                  THEN [popped EXCEPT !.states = uncover_cell(@, e[1], e[2]),
                                      !.particles = spawn_particles(@),
                                      !.shockwaves = spawn_shockwave(@)]
                  ELSE [popped EXCEPT !.wrong_flags = Append(@, <<e[1], e[2]>>)]
         ELSE [a EXCEPT !.mine_reveal_timer = @ + dt]
    ELSE [a EXCEPT !.mine_reveal_timer = 0]

show_game_over_popup_if_ready(a) ==
    IF /\ a.state = GameOver
       /\ a.mine_reveal_queue = <<>>
       /\ a.particles = {}
       /\ a.shockwaves = {}
    THEN [a EXCEPT !.state = Lost]
    ELSE a

\* ------------------------------------------------- the top bar and popups

\* a frame's input: which buttons were pressed in it, what the mouse is over,
\* and the frame time
Target(kind, row, col, size) == [kind |-> kind, row |-> row, col |-> col, size |-> size]
Input(left, right, target, dt) == [left |-> left, right |-> right, target |-> target, dt |-> dt]
Over(kind) == Target(kind, 0, 0, Small)

draw_board_size_dropdown_button(a, inp) ==
    IF inp.left
    THEN IF a.ignore_next_size_popup_click
         THEN [a EXCEPT !.ignore_next_size_popup_click = FALSE]
         ELSE IF inp.target.kind = "size_button"
              THEN [a EXCEPT !.show_size_popup = TRUE]
              ELSE a
    ELSE a

draw_new_game_icon(a, inp) ==
    IF inp.left /\ inp.target.kind = "new_game" THEN reset_game(a) ELSE a

draw_sound_icon(a, inp) ==
    IF inp.left /\ inp.target.kind = "sound" THEN [a EXCEPT !.sound = ~@] ELSE a

draw_top_bar(a, inp) ==
    draw_sound_icon(draw_new_game_icon(draw_board_size_dropdown_button(a, inp), inp), inp)

\* the menu without the return for the size that is already selected
draw_board_size_dropdown_menu_no_return(a, inp) ==
    IF ~a.show_size_popup \/ a.ignore_next_size_popup_click THEN a
    ELSE IF inp.left /\ inp.target.kind = "size_option"
    THEN [reset_game([a EXCEPT !.board_size = inp.target.size])
              EXCEPT !.ignore_next_size_popup_click = TRUE]
    ELSE IF inp.left /\ inp.target.kind \notin {"size_option", "size_button"}
    THEN [a EXCEPT !.show_size_popup = FALSE]
    ELSE a

draw_board_size_dropdown_menu(a, inp) ==
    IF ~a.show_size_popup \/ a.ignore_next_size_popup_click THEN a
    ELSE IF inp.left /\ inp.target.kind = "size_option"
    THEN IF a.board_size = inp.target.size THEN a
         ELSE [reset_game([a EXCEPT !.board_size = inp.target.size])
                   EXCEPT !.ignore_next_size_popup_click = TRUE]
    ELSE IF inp.left /\ inp.target.kind \notin {"size_option", "size_button"}
    THEN [a EXCEPT !.show_size_popup = FALSE]
    ELSE a

\* draw_popup returns true for a left press on its Play Again button
draw_popup(inp) == inp.left /\ inp.target.kind = "play_again"

handle_endgame_popups(a, inp) ==
    IF a.state = Won
    THEN IF a.end_time.some /\ a.end_time.val > PopupTicks /\ draw_popup(inp)
         THEN reset_game(a)
         ELSE a
    ELSE IF a.state = Lost /\ draw_popup(inp) THEN reset_game(a)
    ELSE a

\* ------------------------------------------------- one iteration of run

\* step 9 without the test for a Covered cell
left_click_any_state(a, inp, taken) ==
    IF /\ inp.left
       /\ a.state \in {NotStarted, Running}
       /\ inp.target.kind = "cell"
       /\ InGrid(a.states, inp.target.row, inp.target.col)
    THEN handle_left_click(a, inp.target.row, inp.target.col, taken)
    ELSE a

\* step 9 taking clicks in a won game too
left_click_after_win(a, inp, taken) ==
    IF /\ inp.left
       /\ a.state \in {NotStarted, Running, Won}
       /\ inp.target.kind = "cell"
       /\ InGrid(a.states, inp.target.row, inp.target.col)
       /\ a.states[inp.target.row][inp.target.col] = Covered
    THEN handle_left_click(a, inp.target.row, inp.target.col, taken)
    ELSE a

\* steps 9 and 10 of the loop: the clicks on the board
left_click(a, inp, taken) ==
    IF /\ inp.left
       /\ a.state \in {NotStarted, Running}
       /\ inp.target.kind = "cell"
       /\ InGrid(a.states, inp.target.row, inp.target.col)
       /\ a.states[inp.target.row][inp.target.col] = Covered
    THEN handle_left_click(a, inp.target.row, inp.target.col, taken)
    ELSE a

right_click(a, inp) ==
    IF /\ inp.right
       /\ a.state = Running
       /\ inp.target.kind = "cell"
       /\ InGrid(a.states, inp.target.row, inp.target.col)
    THEN handle_right_click(a, inp.target.row, inp.target.col)
    ELSE a

\* get_time() has advanced by the frame time since the last frame
advance_clock(a, dt) ==
    [a EXCEPT !.end_time = IF @.some THEN Some(Min(@.val + dt, PopupTicks + 1)) ELSE @,
              !.handled = None,
              !.events = <<>>,
              !.rng_ok = TRUE]

run_loop(a, inp, taken) ==
    LET a2 == The({draw_top_bar(x, inp) : x \in {advance_clock(a, inp.dt)}})
        a3 == The({draw_board(x, 0, inp.dt) : x \in {a2}})
        a4 == The({IF x.show_size_popup THEN draw_board_size_dropdown_menu(x, inp)
                   ELSE x : x \in {a3}})
        a5 == The({update_and_draw_particles(x, inp.dt) : x \in {a4}})
        a6 == The({update_and_draw_shockwaves(x, inp.dt) : x \in {a5}})
        a7 == The({reveal_mines_with_animation(x, inp.dt) : x \in {a6}})
        a8 == The({show_game_over_popup_if_ready(x) : x \in {a7}})
        a9 == The({IF ~x.show_size_popup THEN left_click(x, inp, taken) ELSE x :
                   x \in {a8}})
        a10 == The({IF ~x.show_size_popup THEN right_click(x, inp) ELSE x : x \in {a9}})
    IN  The({handle_endgame_popups(x, inp) : x \in {a10}})

\* the controller's variables hold the fields of a
AppIs(a) ==
    /\ width = a.width
    /\ height = a.height
    /\ mines = a.mines
    /\ cells = a.cells
    /\ states = a.states
    /\ mine_positions = a.mine_positions
    /\ board_size = a.board_size
    /\ show_size_popup = a.show_size_popup
    /\ ignore_next_size_popup_click = a.ignore_next_size_popup_click
    /\ sound = a.sound
    /\ state = a.state
    /\ start_time = a.start_time
    /\ end_time = a.end_time
    /\ pop_timers = a.pop_timers
    /\ wave_timers = a.wave_timers
    /\ particles = a.particles
    /\ shockwaves = a.shockwaves
    /\ mine_reveal_queue = a.mine_reveal_queue
    /\ wrong_flags = a.wrong_flags
    /\ mine_reveal_timer = a.mine_reveal_timer
    /\ handled = a.handled
    /\ history = a.history

\* ------------------------------------------------ Spec: the board engine

\* the boards a specification constructs: new(w, h, m) with w, h >= 1
BoardDims(maxCells, maxMines) ==
    {d \in (1..maxCells) \X (1..maxCells) \X (0..maxMines) : d[1] * d[2] <= maxCells}

\* the coordinates Spec calls the operations with: every cell of the board,
\* and row = height and col = width for the coordinates that are off it
Coords ==
    ((0..(height - 1)) \X (0..(width - 1)))
        \cup {<<height, 0>>, <<0, width>>, <<height, width>>}

Call(name, row, col) == [name |-> name, row |-> row, col |-> col]

\* the bookkeeping of one call: what was called, what it returned
Record(call, result) ==
    /\ op' = call
    /\ ret' = result
    /\ reps' = IF call = op /\ call.name \in {"flag_cell", "unflag_cell"} THEN 2 ELSE 1
    /\ UNCHANGED appVars

\* a panic unwinds out of the caller: nothing is called after it
Alive == ret.tag # "panic"

InitBoard(dims) ==
    \E d \in dims :
        LET b == Board_new(d[1], d[2], d[3])
        IN  /\ AppIs([MinesweeperApp_new(d[1], d[2], d[3]) EXCEPT
                          !.width = b.width, !.height = b.height, !.mines = b.mines,
                          !.cells = b.cells, !.states = b.states,
                          !.mine_positions = b.mine_positions])
            /\ op = Call("new", 0, 0)
            /\ ret = Unit
            /\ reps = 1
            /\ nplace = 0
            /\ ctor = d

Init == InitBoard(BoardDims(MaxCells, MaxMines))

CellQuery ==
    \E row \in 0..height, col \in 0..width :
        /\ <<row, col>> \in Coords
        /\ Alive
        /\ Record(Call("cell", row, col), RetOption(cell(row, col)))
        /\ UNCHANGED <<boardVars, nplace, ctor>>

CellStateQuery ==
    \E row \in 0..height, col \in 0..width :
        /\ <<row, col>> \in Coords
        /\ Alive
        /\ Record(Call("cell_state", row, col), RetOption(cell_state(row, col)))
        /\ UNCHANGED <<boardVars, nplace, ctor>>

FlagCell ==
    \E row \in 0..height, col \in 0..width :
        /\ <<row, col>> \in Coords
        /\ Alive
        /\ states' = flag_cell(states, row, col)
        /\ Record(Call("flag_cell", row, col), Unit)
        /\ UNCHANGED <<width, height, mines, cells, mine_positions, nplace, ctor>>

UnflagCell ==
    \E row \in 0..height, col \in 0..width :
        /\ <<row, col>> \in Coords
        /\ Alive
        /\ states' = unflag_cell(states, row, col)
        /\ Record(Call("unflag_cell", row, col), Unit)
        /\ UNCHANGED <<width, height, mines, cells, mine_positions, nplace, ctor>>

UncoverCell ==
    \E row \in 0..height, col \in 0..width :
        /\ <<row, col>> \in Coords
        /\ Alive
        /\ states' = uncover_cell(states, row, col)
        /\ Record(Call("uncover_cell", row, col), Unit)
        /\ UNCHANGED <<width, height, mines, cells, mine_positions, nplace, ctor>>

PlaceMinesAvoiding ==
    \E avoid_row \in 0..height, avoid_col \in 0..width :
        /\ <<avoid_row, avoid_col>> \in Coords
        /\ Alive
        /\ nplace < MaxPlacements
        /\ \E taken \in shuffle_take(positions(height, width, avoid_row, avoid_col), mines) :
              /\ cells' = set_mines(cells, taken)
              /\ mine_positions' = taken
        /\ nplace' = nplace + 1
        /\ Record(Call("place_mines_avoiding", avoid_row, avoid_col), Unit)
        /\ UNCHANGED <<width, height, mines, states, ctor>>

CalculateNumbers ==
    /\ Alive
    /\ cells' = calculate_numbers(cells, height, width)
    /\ Record(Call("calculate_numbers", 0, 0), Unit)
    /\ UNCHANGED <<width, height, mines, states, mine_positions, nplace, ctor>>

FloodFillWave ==
    \E row \in 0..height, col \in 0..width :
        /\ <<row, col>> \in Coords
        /\ Alive
        /\ \E f \in {flood_fill_wave(cells, height, width, states, row, col)} :
               /\ states' = f.states
               /\ Record(Call("flood_fill_wave", row, col),
                         IF f.panic THEN Panic ELSE RetSeq(f.revealed))
        /\ UNCHANGED <<width, height, mines, cells, mine_positions, nplace, ctor>>

Next ==
    \/ CellQuery
    \/ CellStateQuery
    \/ FlagCell
    \/ UnflagCell
    \/ UncoverCell
    \/ PlaceMinesAvoiding
    \/ CalculateNumbers
    \/ FloodFillWave

Spec == Init /\ [][Next]_vars

\* --------------------- SpecLife: the engine with mines placed at most once

PlaceMinesOnce ==
    /\ nplace = 0
    /\ PlaceMinesAvoiding

NextLife ==
    \/ CellQuery
    \/ CellStateQuery
    \/ FlagCell
    \/ UnflagCell
    \/ UncoverCell
    \/ PlaceMinesOnce
    \/ CalculateNumbers
    \/ FloodFillWave

SpecLife == Init /\ [][NextLife]_vars

\* ------------------------------- SpecPlace: new, place once, calculate

InitPlace == InitBoard(BoardDims(MaxPlaceCells, MaxPlaceMines))

NextPlace ==
    \/ PlaceMinesOnce
    \/ CalculateNumbers

SpecPlace == InitPlace /\ [][NextPlace]_vars

\* ------------- SpecNumbers: mines set cell by cell, then calculate_numbers

InitNumbers == InitBoard(BoardDims(MaxNumCells, 0))

\* set_cell with Mine or Empty on a board whose numbers were not calculated
\* yet, as the tests build their boards
SetCell ==
    \E row \in 0..(height - 1), col \in 0..(width - 1), v \in {Mine, Empty} :
        /\ op.name \in {"new", "set_cell"}
        /\ cells' = set_cell(cells, row, col, v)
        /\ Record(Call("set_cell", row, col), Unit)
        /\ UNCHANGED <<width, height, mines, states, mine_positions, nplace, ctor>>

NextNumbers ==
    \/ SetCell
    \/ CalculateNumbers

SpecNumbers == InitNumbers /\ [][NextNumbers]_vars

\* ---------- SpecFill: a board set up as the tests do, then flood_fill_wave

UpTo(S, n) == {T \in SUBSET S : Cardinality(T) <= n}

\* Board::new(w, h, 0); set_cell(Mine) and insert_mine_position for the cells
\* of mined; calculate_numbers; set_cell_state for the cells of flagged and
\* uncovered
InitFill ==
    \E d \in BoardDims(MaxFillCells, 0) :
        LET onBoard == (0..(d[2] - 1)) \X (0..(d[1] - 1))
        IN  \E mined \in UpTo(onBoard, MaxFillSet) :
                \E marked \in UpTo(onBoard, MaxFillSet - Cardinality(mined)) :
                    \E flagged \in SUBSET marked :
                        LET b == Board_new(d[1], d[2], d[3])
                            cl == calculate_numbers(set_cells(b.cells, mined, Mine),
                                                    b.height, b.width)
                            sts == set_cell_states(
                                       set_cell_states(b.states, flagged, Flagged),
                                       marked \ flagged, Uncovered)
                        IN  /\ AppIs([MinesweeperApp_new(d[1], d[2], d[3]) EXCEPT
                                          !.width = b.width, !.height = b.height,
                                          !.mines = b.mines,
                                          !.cells = cl, !.states = sts,
                                          !.mine_positions =
                                              insert_mine_positions(b.mine_positions, mined)])
                            /\ op = Call("set_cell_state", 0, 0)
                            /\ ret = Unit
                            /\ reps = 1
                            /\ nplace = 0
                            /\ ctor = d

\* one flood_fill_wave on the board that was set up
FloodFillOnce ==
    /\ op.name = "set_cell_state"
    /\ FloodFillWave

NextFill == FloodFillOnce

SpecFill == InitFill /\ [][NextFill]_vars

\* -------------------------------------------------- SpecApp: the controller

\* the MinesweeperApp and run's locals, as one value
Self ==
    [width |-> width, height |-> height, mines |-> mines,
     cells |-> cells, states |-> states, mine_positions |-> mine_positions,
     board_size |-> board_size,
     show_size_popup |-> show_size_popup,
     ignore_next_size_popup_click |-> ignore_next_size_popup_click,
     sound |-> sound,
     state |-> state,
     start_time |-> start_time,
     end_time |-> end_time,
     pop_timers |-> pop_timers,
     wave_timers |-> wave_timers,
     particles |-> particles,
     shockwaves |-> shockwaves,
     mine_reveal_queue |-> mine_reveal_queue,
     wrong_flags |-> wrong_flags,
     mine_reveal_timer |-> mine_reveal_timer,
     handled |-> handled,
     history |-> history,
     events |-> <<>>,
     rng_ok |-> TRUE]

Becomes(a) ==
    /\ width' = a.width
    /\ height' = a.height
    /\ mines' = a.mines
    /\ cells' = a.cells
    /\ states' = a.states
    /\ mine_positions' = a.mine_positions
    /\ board_size' = a.board_size
    /\ show_size_popup' = a.show_size_popup
    /\ ignore_next_size_popup_click' = a.ignore_next_size_popup_click
    /\ sound' = a.sound
    /\ state' = a.state
    /\ start_time' = a.start_time
    /\ end_time' = a.end_time
    /\ pop_timers' = a.pop_timers
    /\ wave_timers' = a.wave_timers
    /\ particles' = a.particles
    /\ shockwaves' = a.shockwaves
    /\ mine_reveal_queue' = a.mine_reveal_queue
    /\ wrong_flags' = a.wrong_flags
    /\ mine_reveal_timer' = a.mine_reveal_timer
    /\ handled' = a.handled
    /\ history' = a.history

InitApp ==
    /\ \E d \in BoardDims(MaxAppCells, MaxAppMines) :
          /\ ctor = d
          /\ AppIs(MinesweeperApp_new(d[1], d[2], d[3]))
    /\ op = Call("new", 0, 0)
    /\ ret = Unit
    /\ reps = 1
    /\ nplace = 0

\* one frame with the input inp; taken is the outcome of the shuffle, for the
\* frame that places the mines
Frame(inp, taken) ==
    \E a \in {run_loop(Self, inp, taken)} :
        /\ a.rng_ok
        /\ Becomes(a)

\* the boards the model plays on: a board of a preset size is only looked at
Playable == width * height <= MaxAppCells

\* the sets of cells a shuffle could take in this frame
Takes ==
    IF state = NotStarted
    THEN {s \in SUBSET ((0..(height - 1)) \X (0..(width - 1))) : Cardinality(s) <= mines}
    ELSE {{}}

Tick ==
    \E dt \in FrameTimes :
        /\ Frame(Input(FALSE, FALSE, Over("elsewhere"), dt), {})
        /\ UNCHANGED traceVars

LeftClick ==
    /\ Playable
    /\ \E row \in 0..(height - 1), col \in 0..(width - 1), right \in BOOLEAN,
          dt \in FrameTimes, taken \in Takes :
          /\ Frame(Input(TRUE, right, Target("cell", row, col, Small), dt), taken)
          /\ UNCHANGED traceVars

RightClick ==
    /\ Playable
    /\ \E row \in 0..(height - 1), col \in 0..(width - 1), dt \in FrameTimes :
          /\ Frame(Input(FALSE, TRUE, Target("cell", row, col, Small), dt), {})
          /\ UNCHANGED traceVars

ClickNewGame ==
    \E dt \in FrameTimes :
        /\ Frame(Input(TRUE, FALSE, Over("new_game"), dt), {})
        /\ UNCHANGED traceVars

ClickSound ==
    \E dt \in FrameTimes :
        /\ Frame(Input(TRUE, FALSE, Over("sound"), dt), {})
        /\ UNCHANGED traceVars

ClickSizeButton ==
    \E dt \in FrameTimes :
        /\ Frame(Input(TRUE, FALSE, Over("size_button"), dt), {})
        /\ UNCHANGED traceVars

ClickSizeOption ==
    \E size \in BoardSize, dt \in FrameTimes :
        /\ Frame(Input(TRUE, FALSE, Target("size_option", 0, 0, size), dt), {})
        /\ UNCHANGED traceVars

ClickPlayAgain ==
    \E dt \in FrameTimes :
        /\ Frame(Input(TRUE, FALSE, Over("play_again"), dt), {})
        /\ UNCHANGED traceVars

ClickElsewhere ==
    \E dt \in FrameTimes :
        /\ Frame(Input(TRUE, FALSE, Over("elsewhere"), dt), {})
        /\ UNCHANGED traceVars

NextApp ==
    \/ Tick
    \/ LeftClick
    \/ RightClick
    \/ ClickNewGame
    \/ ClickSound
    \/ ClickSizeButton
    \/ ClickSizeOption
    \/ ClickPlayAgain
    \/ ClickElsewhere

SpecApp == InitApp /\ [][NextApp]_vars

\* --------------- SpecReset: frames of the controller, then reset_game calls

\* frames, until reset_game is called on the app from outside a frame
Play ==
    /\ op.name = "new"
    /\ NextApp

\* app.reset_game(), as a test calls it
ResetGame ==
    /\ Becomes(reset_game(Self))
    /\ op' = Call("reset_game", 0, 0)
    /\ ret' = Unit
    /\ UNCHANGED <<reps, nplace, ctor>>

NextReset ==
    \/ Play
    \/ ResetGame

SpecReset == InitApp /\ [][NextReset]_vars

\* ------------------ SpecSizes: params and board_size_from_params, called

InitSizes == InitBoard({<<1, 1, 0>>})

RetSize(arg, val) == [tag |-> "size", arg |-> arg, val |-> val]

\* BoardSize::params(self)
Params ==
    \E s \in BoardSize :
        /\ op' = Call("params", 0, 0)
        /\ ret' = RetSize(s, params(s))
        /\ UNCHANGED <<boardVars, appVars, reps, nplace, ctor>>

\* BoardSize::board_size_from_params(w, h, m), called once: after the app was
\* built, or after params, whose answer is among the triples
BoardSizeFromParams ==
    /\ op.name \in {"new", "params"}
    /\ \E w \in 1..MaxSide, h \in 1..MaxSide, m \in 0..MaxMineCount :
        /\ op' = Call("board_size_from_params", 0, 0)
        /\ ret' = RetSize(<<w, h, m>>, board_size_from_params(w, h, m))
        /\ UNCHANGED <<boardVars, appVars, reps, nplace, ctor>>

NextSizes ==
    \/ Params
    \/ BoardSizeFromParams

SpecSizes == InitSizes /\ [][NextSizes]_vars

\* ------- SpecCalls: the controller's game, then one call on its board

\* a reveal or flag operation called on the board of the game played so far
FlagCellInGame ==
    /\ op.name = "new"
    /\ Playable
    /\ FlagCell

UnflagCellInGame ==
    /\ op.name = "new"
    /\ Playable
    /\ UnflagCell

UncoverCellInGame ==
    /\ op.name = "new"
    /\ Playable
    /\ UncoverCell

FloodFillWaveInGame ==
    /\ op.name = "new"
    /\ Playable
    /\ FloodFillWave

NextCalls ==
    \/ Play
    \/ FlagCellInGame
    \/ UnflagCellInGame
    \/ UncoverCellInGame
    \/ FloodFillWaveInGame

SpecCalls == InitApp /\ [][NextCalls]_vars

\* ------------- SpecGame: one game on the board new built, to its end

\* the boards a game is played on from its first click to its end: large
\* enough for a second mine, which the end-of-game reveal uncovers
InitGame ==
    /\ \E d \in BoardDims(MaxGameCells, MaxGameMines) :
          /\ ctor = d
          /\ AppIs(MinesweeperApp_new(d[1], d[2], d[3]))
    /\ op = Call("new", 0, 0)
    /\ ret = Unit
    /\ reps = 1
    /\ nplace = 0

\* the game is followed on the board new built: the preset board that a
\* reset builds is only looked at
InGame == width * height <= MaxGameCells

\* the inputs of the frames of NextGame in the current state
GameInputs ==
    {Input(FALSE, FALSE, Over("elsewhere"), dt) : dt \in FrameTimes}
    \cup {Input(TRUE, FALSE, Over(kind), dt) :
            kind \in {"new_game", "play_again"}, dt \in FrameTimes}
    \cup (IF InGame
          THEN {Input(b[1], b[2], Target("cell", row, col, Small), dt) :
                  b \in {<<TRUE, FALSE>>, <<FALSE, TRUE>>},
                  row \in 0..(height - 1), col \in 0..(width - 1), dt \in FrameTimes}
          ELSE {})

\* a frame with a left press on a cell
GameLeftClick ==
    /\ InGame
    /\ \E row \in 0..(height - 1), col \in 0..(width - 1), dt \in FrameTimes,
          taken \in Takes :
           /\ Frame(Input(TRUE, FALSE, Target("cell", row, col, Small), dt), taken)
           /\ UNCHANGED traceVars

\* a frame with a right press on a cell
GameRightClick ==
    /\ InGame
    /\ \E row \in 0..(height - 1), col \in 0..(width - 1), dt \in FrameTimes :
           /\ Frame(Input(FALSE, TRUE, Target("cell", row, col, Small), dt), {})
           /\ UNCHANGED traceVars

\* a frame with a left press on the new game icon
GameNewGame ==
    \E dt \in FrameTimes :
        /\ Frame(Input(TRUE, FALSE, Over("new_game"), dt), {})
        /\ UNCHANGED traceVars

\* a frame with a left press where the Play Again button of a popup is
GamePlayAgain ==
    \E dt \in FrameTimes :
        /\ Frame(Input(TRUE, FALSE, Over("play_again"), dt), {})
        /\ UNCHANGED traceVars

\* a frame without a press
GameTick ==
    \E dt \in FrameTimes :
        /\ Frame(Input(FALSE, FALSE, Over("elsewhere"), dt), {})
        /\ UNCHANGED traceVars

NextGame ==
    \/ GameTick
    \/ GameLeftClick
    \/ GameRightClick
    \/ GameNewGame
    \/ GamePlayAgain

SpecGame == InitGame /\ [][NextGame]_vars

\* run's loop never stops: every iteration ends in next_frame().await and the
\* next one follows, and the buttons are not pressed in every frame: a frame
\* without a press is taken whenever it can change the state
InitFair ==
    /\ \E d \in BoardDims(MaxFairCells, MaxFairMines) :
          /\ ctor = d
          /\ AppIs(MinesweeperApp_new(d[1], d[2], d[3]))
    /\ op = Call("new", 0, 0)
    /\ ret = Unit
    /\ reps = 1
    /\ nplace = 0

SpecGameFair == InitFair /\ [][NextGame]_vars /\ WF_vars(GameTick)

\* ================================================================ claims

OnBoard(row, col) == row < height /\ col < width

CellsOfBoard == (0..(height - 1)) \X (0..(width - 1))

MineCells == {p \in CellsOfBoard : cell(p[1], p[2]) = Some(Mine)}

\* how many of the indices 0..n-1 lie within 1 of x
Near(x, n) ==
    LET lo == IF x - 1 < 0 THEN 0 ELSE x - 1
        hi == IF x + 1 > n - 1 THEN n - 1 ELSE x + 1
    IN  IF hi < lo THEN 0 ELSE hi - lo + 1

FirstPlacementDone == op.name = "place_mines_avoiding" /\ nplace = 1

\* C1: after the first place_mines_avoiding(r, c) on a fresh board, with (r, c)
\* on the board, no cell within Chebyshev distance 1 of (r, c) is a Mine.
C1_ExclusionZoneMineFree ==
    (FirstPlacementDone /\ OnBoard(op.row, op.col)) =>
        \A p \in CellsOfBoard :
            (Abs(p[1] - op.row) <= 1 /\ Abs(p[2] - op.col) <= 1)
                => cell(p[1], p[2]) # Some(Mine)

\* a placement around an interior cell (all 9 cells of the zone on the board)
\* that put mines on the board
C1_Witness ==
    /\ FirstPlacementDone
    /\ op.row >= 1 /\ op.row + 1 < height
    /\ op.col >= 1 /\ op.col + 1 < width
    /\ MineCells # {}

\* C2: after new(W, H, M) and one place_mines_avoiding(r, c) the number of Mine
\* cells is min(M, E), E the number of cells outside the 3x3 zone of (r, c),
\* and mine_positions is exactly the set of the Mine cells.
C2_MineCount ==
    FirstPlacementDone =>
        LET E == ctor[1] * ctor[2] - Near(op.row, ctor[2]) * Near(op.col, ctor[1])
        IN  /\ Cardinality(MineCells) = Min(ctor[3], E)
            /\ mine_positions = MineCells

\* more mines asked for than there are eligible cells: fewer are placed
C2_Witness ==
    /\ FirstPlacementDone
    /\ MineCells # {}
    /\ Cardinality(MineCells) < mines
    /\ mine_positions = MineCells

\* C3: in every state reachable by the engine's operations, a coordinate is in
\* mine_positions if and only if the content of that cell is Mine.
C3_MineIndexMatchesCells ==
    /\ mine_positions \subseteq CellsOfBoard
    /\ \A p \in CellsOfBoard : (p \in mine_positions) <=> (cell(p[1], p[2]) = Some(Mine))

\* C6: once a cell is Uncovered, no engine operation changes its state.
C6_UncoveredIsTerminal ==
    [][\A p \in CellsOfBoard :
          states[p[1]][p[2]] = Uncovered => states'[p[1]][p[2]] = Uncovered]_vars

MutatingCalls == {"flag_cell", "unflag_cell", "uncover_cell", "flood_fill_wave"}

\* C7: flag_cell, unflag_cell, uncover_cell and flood_fill_wave, called with a
\* row >= H or a column >= W, return without aborting and leave the content
\* grid, the state grid and the mine index as they were; flood_fill_wave
\* returns an empty sequence.
C7_OutOfBoundsIsNoOp ==
    [][(op'.name \in MutatingCalls /\ ~OnBoard(op'.row, op'.col)) =>
          /\ ret'.tag # "panic"
          /\ UNCHANGED <<cells, states, mine_positions>>
          /\ (op'.name = "flood_fill_wave" => ret' = RetSeq(<<>>))]_vars

\* C8: cell(r, c) and cell_state(r, c) return None exactly when r >= H or
\* c >= W and Some(the value of that cell) otherwise, and change nothing.
C8_QueriesAnswerBounds ==
    [][op'.name \in {"cell", "cell_state"} =>
          /\ UNCHANGED boardVars
          /\ ret'.tag = "option"
          /\ IF op'.row >= height \/ op'.col >= width
             THEN ret'.val = None
             ELSE /\ ret'.val.some
                  /\ op'.name = "cell" => ret'.val = Some(cells[op'.row][op'.col])
                  /\ op'.name = "cell_state" => ret'.val = Some(states[op'.row][op'.col])]_vars

\* both answers were given: an absent cell, and the Mine of a cell on the board
C8_Witness ==
    /\ op.name = "cell"
    /\ OnBoard(op.row, op.col)
    /\ ret = RetOption(Some(Mine))
    /\ cell(height, 0) = None
    /\ cell(0, width) = None

\* C9: flag_cell and unflag_cell are idempotent: a second call with the same
\* coordinate changes nothing; a Covered cell flagged twice is Flagged, a
\* Flagged cell unflagged twice is Covered.
C9_FlagUnflagIdempotent ==
    [][/\ (op'.name \in {"flag_cell", "unflag_cell"} /\ reps' = 2) => UNCHANGED boardVars
       /\ (op'.name = "flag_cell" /\ OnBoard(op'.row, op'.col)
             /\ states[op'.row][op'.col] = Covered)
            => states'[op'.row][op'.col] = Flagged
       /\ (op'.name = "unflag_cell" /\ OnBoard(op'.row, op'.col)
             /\ states[op'.row][op'.col] = Flagged)
            => states'[op'.row][op'.col] = Covered]_vars

\* a cell on the board was flagged twice in a row and is Flagged
C9_Witness ==
    /\ op.name = "flag_cell"
    /\ reps = 2
    /\ OnBoard(op.row, op.col)
    /\ cell_state(op.row, op.col) = Some(Flagged)

\* C10: new(W, H, M) gives a board with every cell Covered and Empty, an empty
\* mine index, and width, height, mines equal to W, H, M.
C10_FreshBoard ==
    op.name = "new" =>
        /\ width = ctor[1] /\ height = ctor[2] /\ mines = ctor[3]
        /\ mine_positions = {}
        /\ \A row \in 0..(ctor[2] - 1), col \in 0..(ctor[1] - 1) :
              /\ cell_state(row, col) = Some(Covered)
              /\ cell(row, col) = Some(Empty)

\* a fresh board that is not square and was asked for mines
C10_Witness ==
    /\ op.name = "new"
    /\ width > height
    /\ height > 1
    /\ mines > 0
    /\ cell_state(height - 1, width - 1) = Some(Covered)

\* ------------------------------------------------------------ controller

NonMineCells == {p \in CellsOfBoard : cells[p[1]][p[2]] # Mine}

\* C4: in the controller, when a left click on a cell was handled while the
\* game state was NotStarted, then after it the clicked cell's content is
\* Empty, its state is Uncovered, and the game state is Running or Won.
C4_FirstClickIsSafe ==
    (handled.some /\ handled.val.first) =>
        /\ cells[handled.val.row][handled.val.col] = Empty
        /\ states[handled.val.row][handled.val.col] = Uncovered
        /\ state \in {Running, Won}

\* a first click after which mines are on the board and the game goes on
C4_Witness ==
    /\ handled.some /\ handled.val.first
    /\ mine_positions # {}
    /\ state = Running

\* C5: in every state between two frames, the game state is Won if and only
\* if every cell whose content is not Mine is Uncovered.
C5_WonIffAllSafeCellsUncovered ==
    (state = Won) <=> (\A p \in NonMineCells : states[p[1]][p[2]] = Uncovered)

\* a game won by a later click on a board with a mine, which is flagged
C5_Witness ==
    /\ state = Won
    /\ handled.some /\ ~handled.val.first
    /\ \E p \in mine_positions : states[p[1]][p[2]] = Flagged

\* ------------------------------------------------- numbers and flood fill

\* the Mine cells among the in-bounds 8 neighbours of p
MineNeighbours(p) ==
    {q \in CellsOfBoard :
        /\ q # p
        /\ Abs(q[1] - p[1]) <= 1
        /\ Abs(q[2] - p[2]) <= 1
        /\ cells[q[1]][q[2]] = Mine}

\* C11: after calculate_numbers, for any placement of mines, every Mine cell
\* is still Mine, and every other cell is Number(n) with n the number of Mine
\* cells among its in-bounds 8 neighbours when n is 1..8, and Empty when n is
\* 0; so a board without mines is Empty everywhere.
C11_NumbersCountMineNeighbours ==
    [][op'.name = "calculate_numbers" =>
          \A p \in CellsOfBoard :
              LET n == Cardinality(MineNeighbours(p))
              IN  cells'[p[1]][p[2]] =
                      IF cells[p[1]][p[2]] = Mine THEN Mine
                      ELSE IF n = 0 THEN Empty
                      ELSE Number(n)]_vars

\* numbers were calculated on a board where a cell has 8 Mine neighbours
C11_Witness ==
    /\ op.name = "calculate_numbers"
    /\ \E p \in CellsOfBoard : cells[p[1]][p[2]] = Number(8)

Adjacent(p, q) == q # p /\ Abs(q[1] - p[1]) <= 1 /\ Abs(q[2] - p[2]) <= 1

\* every cell that is not a Mine holds the count of its Mine neighbours
NumbersCalculated ==
    \A p \in CellsOfBoard :
        \/ cells[p[1]][p[2]] = Mine
        \/ \E n \in 0..8 : /\ n = Cardinality(MineNeighbours(p))
                           /\ cells[p[1]][p[2]] = IF n = 0 THEN Empty ELSE Number(n)

\* R and the Covered cells next to an Empty Covered cell of R (an image
\* {x : x \in ..}, so that the set is enumerated at every step)
Grow(R) ==
    {x : x \in R \cup {q \in CellsOfBoard :
                         /\ states[q[1]][q[2]] = Covered
                         /\ \E p \in R : /\ Adjacent(p, q)
                                         /\ cells[p[1]][p[2]] = Empty
                                         /\ states[p[1]][p[2]] = Covered}}

\* Grow, repeated until nothing is added
RECURSIVE FillRegion(_)
FillRegion(R) ==
    LET G == Grow(R)
    IN  IF G = R THEN R ELSE FillRegion(G)

\* the origin and the cells at the end of an 8-neighbour path from it whose
\* cells before the last are Empty and Covered and whose last is Covered
Region(o) == FillRegion({o})

ResultCells(revealed) == {<<revealed[i][1], revealed[i][2]>> : i \in DOMAIN revealed}

Corners == {<<0, 0>>, <<0, width - 1>>, <<height - 1, 0>>, <<height - 1, width - 1>>}

Opposite(p) == <<height - 1 - p[1], width - 1 - p[2]>>

\* C12: on a board with numbers calculated, flood_fill_wave from a Covered
\* origin with content Empty returns exactly the origin and every cell at the
\* end of an 8-neighbour path from it whose cells before the last are Empty
\* and Covered and whose last cell is Covered, and all returned cells are
\* Uncovered afterwards; on an all-Covered 3x3 board with one mine in a
\* corner, the fill from the opposite corner returns all 8 non-mine cells.
C12_FloodFillReturnsRegion ==
    [][LET o == <<op'.row, op'.col>>
       IN  (/\ op'.name = "flood_fill_wave"
            /\ OnBoard(o[1], o[2])
            /\ states[o[1]][o[2]] = Covered
            /\ cells[o[1]][o[2]] = Empty
            /\ NumbersCalculated)
           => /\ ret'.tag = "seq"
              /\ ResultCells(ret'.val) = Region(o)
              /\ \A p \in Region(o) : states'[p[1]][p[2]] = Uncovered
              /\ (/\ width = 3 /\ height = 3
                  /\ \A p \in CellsOfBoard : states[p[1]][p[2]] = Covered
                  /\ \E m \in Corners : MineCells = {m} /\ o = Opposite(m))
                 => /\ Len(ret'.val) = 8
                    /\ ResultCells(ret'.val) = CellsOfBoard \ MineCells]_vars

\* the fill from (2,2) of a 3x3 board with its one mine at (0,0) returned 8
\* cells, and they are Uncovered while the mine is Covered
C12_Witness ==
    /\ op = Call("flood_fill_wave", 2, 2)
    /\ width = 3 /\ height = 3
    /\ MineCells = {<<0, 0>>}
    /\ ret.tag = "seq" /\ Len(ret.val) = 8
    /\ states[0][0] = Covered
    /\ \A p \in CellsOfBoard \ {<<0, 0>>} : states[p[1]][p[2]] = Uncovered

\* C13: for every board state and every in-bounds origin, whatever its state
\* (Covered, Flagged or Uncovered), every cell in the result of
\* flood_fill_wave was Covered immediately before it was added to the result
\* (a cell's state changes only when it is added, so that is its state before
\* the call), and no coordinate appears in the result more than once.
C13_RevealedWereCoveredOnce ==
    [][(op'.name = "flood_fill_wave" /\ OnBoard(op'.row, op'.col)) =>
          /\ ret'.tag = "seq"
          /\ \A i \in DOMAIN ret'.val :
                states[ret'.val[i][1]][ret'.val[i][2]] = Covered
          /\ \A i, j \in DOMAIN ret'.val :
                (ret'.val[i][1] = ret'.val[j][1] /\ ret'.val[i][2] = ret'.val[j][2])
                    => i = j]_vars

\* C14: for every board state and every in-bounds origin (r, c), the sequence
\* returned by flood_fill_wave(r, c) has the origin as its first element,
\* (r, c, 0).
C14_OriginIsFirst ==
    [][(op'.name = "flood_fill_wave" /\ OnBoard(op'.row, op'.col)) =>
          /\ ret'.tag = "seq"
          /\ Len(ret'.val) >= 1
          /\ ret'.val[1] = <<op'.row, op'.col, 0>>]_vars

\* R and the cells of X next to an Empty cell of R
GrowRevealed(R, X) ==
    {x : x \in R \cup {q \in X : \E p \in R : /\ Adjacent(p, q)
                                             /\ cells[p[1]][p[2]] = Empty}}

\* acc and, layer by layer, <<r, c, d>> for the cells first reached in d steps
RECURSIVE Layers(_, _, _, _)
Layers(R, X, d, acc) ==
    LET G == GrowRevealed(R, X)
    IN  IF G = R THEN acc
        ELSE Layers(G, X, d + 1,
                    {x : x \in acc \cup {<<q[1], q[2], d + 1>> : q \in G \ R}})

\* <<r, c, d>> for every cell (r, c) of X, d being the length of the shortest
\* 8-neighbour path from o to it whose cells before the last are Empty cells
\* of X
PathLengths(o, X) == Layers({o}, X, 0, {<<o[1], o[2], 0>>})

\* C15: the distances returned by flood_fill_wave are BFS layers: for each
\* (r, c, d) of the result, d is the length of the shortest 8-neighbour path
\* from the origin to (r, c) whose cells before the last are Empty cells
\* revealed by this call; the distances in the sequence are non-decreasing;
\* and the sequence is determined by the board and the origin alone.
C15_DistancesAreLayers ==
    [][(op'.name = "flood_fill_wave" /\ OnBoard(op'.row, op'.col)) =>
          /\ ret'.tag = "seq"
          /\ {ret'.val[i] : i \in DOMAIN ret'.val}
                 \subseteq PathLengths(<<op'.row, op'.col>>, ResultCells(ret'.val))
          /\ \A i \in 1..(Len(ret'.val) - 1) : ret'.val[i][3] <= ret'.val[i + 1][3]
          /\ ret'.val =
                 flood_fill_wave(cells, height, width, states, op'.row, op'.col).revealed]_vars

\* a fill returned a cell further from the origin than the offset between
\* them: the straight ways to it were closed by flags
C15_Witness ==
    /\ op.name = "flood_fill_wave"
    /\ ret.tag = "seq"
    /\ \E i \in DOMAIN ret.val :
          /\ ret.val[i][3] > Abs(ret.val[i][1] - op.row)
          /\ ret.val[i][3] > Abs(ret.val[i][2] - op.col)
    /\ \E p \in CellsOfBoard : states[p[1]][p[2]] = Flagged

\* ------------------------------------------------- reset and board size

\* C16: from any controller state, reset_game yields game state NotStarted,
\* every cell Covered with an empty mine index, start_time 0, end_time None,
\* empty particles, shockwaves, mine_reveal_queue and wrong_flags, all pop and
\* wave timers None, and the sound setting equal to its value before the
\* reset.
C16_ResetClearsTheGame ==
    [][op'.name = "reset_game" =>
          /\ state' = NotStarted
          /\ mine_positions' = {}
          /\ start_time' = 0
          /\ end_time' = None
          /\ particles' = {}
          /\ shockwaves' = {}
          /\ mine_reveal_queue' = <<>>
          /\ wrong_flags' = <<>>
          /\ \A row \in 0..(height' - 1), col \in 0..(width' - 1) :
                /\ states'[row][col] = Covered
                /\ pop_timers'[row][col] = None
                /\ wave_timers'[row][col] = None
          /\ sound' = sound]_vars

\* reset_game was called with the sound muted, the size menu open and run's
\* mine reveal timer running, which it is only in a lost game
C16_Witness ==
    /\ op.name = "reset_game"
    /\ state = NotStarted
    /\ ~sound
    /\ show_size_popup
    /\ mine_reveal_timer > 0

\* C17: reset_game keeps the board size and the mine count: for every app
\* built with MinesweeperApp::new(W, H, M) and every sequence of game events
\* without a board-size selection, the board after reset_game has width W,
\* height H and mines M. (A board that still has the constructor's W, H, M
\* saw no selection of another size: that would have made it a preset's.)
C17_ResetKeepsTheBoardSize ==
    [][(/\ op'.name = "reset_game"
        /\ width = ctor[1] /\ height = ctor[2] /\ mines = ctor[3])
          => (width' = ctor[1] /\ height' = ctor[2] /\ mines' = ctor[3])]_vars

\* the fields of the game: the board, the game state and the timers
Game(a) ==
    <<a.width, a.height, a.mines, a.cells, a.states, a.mine_positions, a.state,
      a.start_time, a.end_time, a.pop_timers, a.wave_timers>>

\* the app after the frame in which the left button is pressed on the
\* option size of the size menu, and after the same frame without a press
SelectSize(size, dt) ==
    run_loop(Self, Input(TRUE, FALSE, Target("size_option", 0, 0, size), dt), {})

NoPress(dt) ==
    run_loop(Self, Input(FALSE, FALSE, Over("elsewhere"), dt), {})

\* C18: selecting a board size different from the current one resets the
\* game: afterwards the board has that preset's width, height and mine count,
\* every cell is Covered, the state is NotStarted, start_time is 0 and
\* end_time is None; selecting the size that is already current changes
\* nothing of the game (board, game state, timers): the game is after that
\* frame what it is after the same frame without a press. Stated of the
\* frame ClickSizeOption takes from each state in which the menu is open.
C18_SizeSelection ==
    show_size_popup =>
        \A size \in BoardSize, dt \in FrameTimes :
            \E a \in {SelectSize(size, dt)} :
                IF size # board_size
                THEN /\ a.board_size = size
                     /\ <<a.width, a.height, a.mines>> = params(size)
                     /\ a.states = Grid(a.width, a.height, Covered)
                     /\ a.state = NotStarted
                     /\ a.start_time = 0
                     /\ a.end_time = None
                ELSE Game(a) = Game(NoPress(dt))

\* Medium was selected on a board that was built with another size
C18_Witness ==
    /\ board_size = Medium
    /\ <<width, height, mines>> = <<16, 16, 40>>
    /\ ctor # <<16, 16, 40>>
    /\ ignore_next_size_popup_click
    /\ show_size_popup
    /\ state = NotStarted

C20_UncoverCellIsLocal ==
    [][(op'.name = "uncover_cell" /\ OnBoard(op'.row, op'.col)) =>
          /\ states'[op'.row][op'.col] = Uncovered
          /\ \A p \in CellsOfBoard :
                p # <<op'.row, op'.col>> => states'[p[1]][p[2]] = states[p[1]][p[2]]
          /\ UNCHANGED <<width, height, mines, cells, mine_positions>>]_vars

\* an Empty cell was uncovered next to a Covered cell that is not a Mine, and
\* that cell stayed Covered
C20_Witness ==
    /\ op.name = "uncover_cell"
    /\ OnBoard(op.row, op.col)
    /\ cells[op.row][op.col] = Empty
    /\ states[op.row][op.col] = Uncovered
    /\ mine_positions # {}
    /\ \E p \in CellsOfBoard :
          /\ Adjacent(<<op.row, op.col>>, p)
          /\ cells[p[1]][p[2]] = Empty
          /\ states[p[1]][p[2]] = Covered

\* ------------------------------------------- flood fill: leaves and frame

\* C21: cells whose content is not Empty are leaves of the flood: a call of
\* flood_fill_wave on an origin that is not Uncovered and whose content is
\* not Empty returns exactly [(r, c, 0)] and changes the state of that one
\* cell only.
C21_NonEmptyOriginIsALeaf ==
    [][(/\ op'.name = "flood_fill_wave"
        /\ OnBoard(op'.row, op'.col)
        /\ states[op'.row][op'.col] # Uncovered
        /\ cells[op'.row][op'.col] # Empty)
          => /\ ret' = RetSeq(<< <<op'.row, op'.col, 0>> >>)
             /\ states' = [states EXCEPT ![op'.row][op'.col] = Uncovered]
             /\ UNCHANGED <<cells, mine_positions, width, height, mines>>]_vars

\* the fill from a Number cell returned that cell alone, and an Empty cell
\* next to it is still Covered
C21_Witness ==
    /\ op.name = "flood_fill_wave"
    /\ OnBoard(op.row, op.col)
    /\ cells[op.row][op.col].kind = "Number"
    /\ ret = RetSeq(<< <<op.row, op.col, 0>> >>)
    /\ \E p \in CellsOfBoard :
          /\ Adjacent(<<op.row, op.col>>, p)
          /\ cells[p[1]][p[2]] = Empty
          /\ states[p[1]][p[2]] = Covered

\* C22: flood_fill_wave terminates for every board state and every in-bounds
\* origin: each cell is enqueued at most once (it is marked visited when it
\* is enqueued), so the queue empties after at most W*H dequeues. The loop
\* ends with an empty queue, so it dequeued every entry it enqueued: the
\* number of dequeues equals the number of visited cells exactly when no
\* cell was enqueued twice.
C22_FloodFillTerminates ==
    [][(op'.name = "flood_fill_wave" /\ OnBoard(op'.row, op'.col))
          => \E f \in {flood_fill_wave(cells, height, width, states, op'.row, op'.col)} :
                /\ ret' = RetSeq(f.revealed)
                /\ states' = f.states
                /\ f.dequeues = Cardinality(f.visited)
                /\ f.visited \subseteq CellsOfBoard
                /\ f.dequeues <= width * height]_vars

\* a fill that dequeued every cell of a board of four cells or more: each
\* cell but the origin is next to two revealed Empty cells or more
C22_Witness ==
    /\ op.name = "flood_fill_wave"
    /\ ret.tag = "seq"
    /\ width * height >= 4
    /\ width >= 2
    /\ height >= 2
    /\ Len(ret.val) = width * height

\* C23: reveals and flags only mutate the state grid: flag_cell, unflag_cell,
\* uncover_cell and flood_fill_wave leave the content of every cell, the mine
\* index and the dimensions W, H, M unchanged; so in the game controller,
\* once the first click has placed mines and calculated numbers (the game
\* state is no longer NotStarted), no cell's content changes until the game
\* is reset (the game state is NotStarted again).
C23_RevealsAndFlagsKeepContent ==
    [][/\ op'.name \in {"flag_cell", "unflag_cell", "uncover_cell", "flood_fill_wave"}
            => UNCHANGED <<cells, mine_positions, width, height, mines>>
       /\ (op'.name = "new" /\ state # NotStarted /\ state' # NotStarted)
            => UNCHANGED <<cells, mine_positions, width, height, mines>>]_vars

\* a flood fill on the board of a started game, with a mine on it, revealed
\* a cell or more
C23_Witness ==
    /\ op.name = "flood_fill_wave"
    /\ ret.tag = "seq"
    /\ Len(ret.val) >= 1
    /\ state # NotStarted
    /\ mine_positions # {}
    /\ \E p \in CellsOfBoard : cells[p[1]][p[2]].kind = "Number"

\* C26: on a board whose numbers were calculated from its mines,
\* flood_fill_wave from any origin whose content is not Mine never sets a Mine
\* cell to Uncovered, whatever cells are Covered, Flagged or Uncovered: no
\* coordinate of the mine index appears in the result.
C26_FloodFillSparesMines ==
    [][(/\ op'.name = "flood_fill_wave"
        /\ OnBoard(op'.row, op'.col)
        /\ NumbersCalculated
        /\ cells[op'.row][op'.col] # Mine)
          => /\ ret'.tag = "seq"
             /\ ResultCells(ret'.val) \cap mine_positions = {}
             /\ \A p \in MineCells \cup mine_positions :
                   states'[p[1]][p[2]] = states[p[1]][p[2]]]_vars

\* a fill that spread from an Empty origin and left a Covered mine Covered
C26_Witness ==
    /\ op.name = "flood_fill_wave"
    /\ ret.tag = "seq"
    /\ Len(ret.val) >= 2
    /\ cells[op.row][op.col] = Empty
    /\ \E p \in mine_positions :
          cells[p[1]][p[2]] = Mine /\ states[p[1]][p[2]] = Covered

\* ------------------------------------------------- the course of a game

\* the calls of place_mines_avoiding and calculate_numbers in a history
IsSetupCall(e) == e.name \in {"place_mines_avoiding", "calculate_numbers"}
SetupCalls(h) == SelectSeq(h, IsSetupCall)

\* the two calls as the first click makes them: the state is NotStarted and
\* no cell is Uncovered
FirstClickSetup ==
    << [name |-> "place_mines_avoiding", state |-> NotStarted, uncovered |-> FALSE],
       [name |-> "calculate_numbers", state |-> NotStarted, uncovered |-> FALSE] >>

\* C24: in the game controller, between two resets place_mines_avoiding and
\* calculate_numbers are each run at most once, in that order, during the
\* handling of the first left click (state NotStarted), and before any cell
\* becomes Uncovered; no later click in that game runs either of them again.
\* history starts empty at every reset.
C24_SetupRunsOnce ==
    /\ [](/\ SetupCalls(history) \in {<<>>, FirstClickSetup}
          /\ history # <<>> => SubSeq(history, 1, 2) = FirstClickSetup
          /\ AnyUncovered(Self) => SetupCalls(history) = FirstClickSetup)
    /\ [][/\ (SetupCalls(history') # SetupCalls(history) /\ history' # <<>>)
               => (state = NotStarted /\ handled'.some /\ handled'.val.first)
          /\ (handled'.some /\ ~handled'.val.first)
               => SetupCalls(history') = SetupCalls(history)]_vars

\* a click after the first one was handled, with a mine on the board, and
\* the two calls are in the history once
C24_Witness ==
    /\ handled.some
    /\ ~handled.val.first
    /\ mine_positions # {}
    /\ SetupCalls(history) = FirstClickSetup

\* the inputs of the frames of NextApp in the current state
FrameInputs ==
    {Input(FALSE, FALSE, Over("elsewhere"), dt) : dt \in FrameTimes}
    \cup {Input(TRUE, FALSE, Over(kind), dt) :
            kind \in {"new_game", "sound", "size_button", "play_again", "elsewhere"},
            dt \in FrameTimes}
    \cup {Input(TRUE, FALSE, Target("size_option", 0, 0, size), dt) :
            size \in BoardSize, dt \in FrameTimes}
    \cup (IF Playable
          THEN {Input(b[1], b[2], Target("cell", row, col, Small), dt) :
                  b \in {<<TRUE, FALSE>>, <<TRUE, TRUE>>, <<FALSE, TRUE>>},
                  row \in 0..(height - 1), col \in 0..(width - 1), dt \in FrameTimes}
          ELSE {})

FlaggedCells == {p \in CellsOfBoard : states[p[1]][p[2]] = Flagged}

\* whether reset_game ran in the frame that gave a
WasReset(a) == \E i \in 1..Len(a.events) : a.events[i].name = "reset_game"

C27_WonAndLostAreExclusive ==
    /\ [](state \in {GameOver, Lost} =>
            \A i \in DOMAIN history : history[i].name # "win")
    /\ [][/\ state \in {GameOver, Lost} => state' \in {GameOver, Lost, NotStarted}
          /\ state = Won => state' \in {Won, NotStarted}]_vars

\* a mine was clicked while a wave timer of an earlier flood fill was
\* pending: check_win runs when it expires
C27_Witness ==
    /\ state = GameOver
    /\ \E p \in CellsOfBoard :
          /\ wave_timers[p[1]][p[2]].some
          /\ cells[p[1]][p[2]] # Mine
          /\ states[p[1]][p[2]] = Uncovered

\* the wins a history records
Wins(h) == SelectSeq(h, LAMBDA e : e.name = "win")

\* C28: the win is recorded once per game: after the game state first becomes
\* Won, end_time is not written again and the win effects (win sound,
\* confetti) are not triggered again until the game is reset, for every
\* sequence of frames that follows, including the frames in which the wave
\* timers of the winning flood fill expire. Every write of end_time by
\* check_win, with its sound and confetti, is a win of the history.
C28_WinIsRecordedOnce ==
    /\ [](Len(Wins(history)) <= 1)
    /\ [][(state = Won /\ state' # NotStarted) => Wins(history') = Wins(history)]_vars

\* ------------------------------------------------------ the end of a game

\* the cells that are Flagged and hold no mine
WrongFlagCells ==
    {p \in CellsOfBoard : states[p[1]][p[2]] = Flagged /\ cells[p[1]][p[2]] # Mine}

\* C29: whenever the game state is Lost: every mine that is not Flagged is
\* Uncovered, every Flagged mine is still Flagged, no non-mine cell was
\* uncovered by the end-of-game reveal, and wrong_flags holds exactly the
\* cells that are Flagged and not mines, each once. The second conjunct is
\* about the frames of the reveal, from the mine click to Lost: a Flagged cell
\* stays Flagged and the state of a cell without a mine does not change.
C29_LostBoard ==
    /\ [](state = Lost =>
            /\ \A p \in MineCells \cup mine_positions :
                  states[p[1]][p[2]] \in {Flagged, Uncovered}
            /\ {wrong_flags[i] : i \in DOMAIN wrong_flags} = WrongFlagCells
            /\ Len(wrong_flags) = Cardinality(WrongFlagCells))
    /\ [][(state = GameOver /\ state' \in {GameOver, Lost}) =>
            \A p \in CellsOfBoard :
                /\ states[p[1]][p[2]] = Flagged => states'[p[1]][p[2]] = Flagged
                /\ cells[p[1]][p[2]] # Mine => states'[p[1]][p[2]] = states[p[1]][p[2]]]_vars

\* a lost game with a Flagged mine, a wrong flag and the clicked mine
\* Uncovered
C29_Witness ==
    /\ state = Lost
    /\ wrong_flags # <<>>
    /\ \E p \in mine_positions : states[p[1]][p[2]] = Flagged
    /\ \E p \in mine_positions : states[p[1]][p[2]] = Uncovered

====
